---- MODULE Spec2Model ----
(***************************************************************************)
(* Model of the quiz generator: quizGenerator/generator.py (sanitising,    *)
(* content validation, the bounded repair/retry loop, the batch driver)    *)
(* and quizGenerator/shema.py (the AnswerSchema validators).               *)
(*                                                                         *)
(* Conventions.  A Python str is a sequence of tokens (one-character       *)
(* strings, or a longer literal taken verbatim from the source); string    *)
(* concatenation is \o.  An Optional value is a sequence of length at most *)
(* one: <<>> is None and <<v>> is the value v.                             *)
(***************************************************************************)
EXTENDS Integers, Sequences, FiniteSets, TLC

VARIABLES
    \* ---- document pipeline (schema parse, _sanitize_quiz, _validate_content_rules)
    dpc,            \* "off" | "json" | "rejected" | "object" | "validated"
    rawQuiz,        \* a quiz as the generator emits it (JSON, a dict)
    doc0,           \* the Quiz object as first obtained
    doc,            \* the Quiz object at hand (mutated in place)
    dprev,          \* the Quiz object before the latest _sanitize_quiz pass
    passes,         \* number of _sanitize_quiz passes made over doc
    dmin,           \* min_questions handed to _validate_content_rules
    dverdict,       \* Optional error message of _validate_content_rules on doc
    \* ---- _run_with_retries
    rpc,            \* "idle" | "top" | "await" | "returned"
    user_prompt,    \* the caller's instruction
    min_questions,
    max_attempts,
    attempt,        \* loop variable of "for attempt in range(1, max_attempts + 1)"
    prompt,         \* the prompt the next Runner.run call is given
    result,         \* Optional Quiz returned to the caller
    raised,         \* TRUE iff an exception left _run_with_retries
    inflight,       \* Runner.run calls issued and not yet completed
    invocations,    \* Runner.run calls issued so far in this call
    issued,         \* the prompt of the latest Runner.run call
    lastFailure,    \* what the latest completed attempt ended with
    generated,      \* Optional Quiz: res.final_output of the latest attempt
    checked,        \* Optional Quiz: what _validate_content_rules was given
    \* ---- main
    mpc,            \* "direct" | "start" | "loop" | "calling" | "done" | "raised"
    source,         \* the prompt source: [file, hasThema, isList, entries]
    idx,            \* index of the entry the for loop is at
    used_names,     \* Dict[str, int], as a set of <<name, count>> pairs
    assigned,       \* per processed entry: [entry, path]
    calls,          \* per _run_with_retries call made by main: [entry, saved]
    skipped,        \* indexes of the entries reported and skipped
    files,          \* output files written: path -> index of the writing entry
    quiz_dir,       \* TRUE iff the directory "quiz/" exists; main never creates it
    main_error      \* class name of the exception that left main, "" if none

docVars == <<dpc, rawQuiz, doc0, doc, dprev, passes, dmin, dverdict>>
retryVars == <<rpc, user_prompt, min_questions, max_attempts, attempt, prompt,
               result, raised, inflight, invocations, issued, lastFailure,
               generated, checked>>
mainVars == <<mpc, source, idx, used_names, assigned, calls, skipped, files,
              quiz_dir, main_error>>
vars == <<docVars, retryVars, mainVars>>

----------------------------------------------------------------------------
(* Optional values *)
None == <<>>
Some(v) == <<v>>
IsNone(o) == Len(o) = 0
Get(o) == o[1]

----------------------------------------------------------------------------
(* Strings *)
\* the characters str.lower() changes, among those a string here can hold
\* (A-Z and the capitals of Latin-1, U+00C0..U+00DE without U+00D7)
UpperSeq == <<"A","B","C","D","E","F","G","H","I","J","K","L","M",
              "N","O","P","Q","R","S","T","U","V","W","X","Y","Z",
              "À","Á","Â","Ã","Ä","Å","Æ","Ç","È","É","Ê","Ë","Ì",
              "Í","Î","Ï","Ð","Ñ","Ò","Ó","Ô","Õ","Ö","Ø","Ù","Ú",
              "Û","Ü","Ý","Þ">>
\* their images under str.lower(), position by position
LowerSeq == <<"a","b","c","d","e","f","g","h","i","j","k","l","m",
              "n","o","p","q","r","s","t","u","v","w","x","y","z",
              "à","á","â","ã","ä","å","æ","ç","è","é","ê","ë","ì",
              "í","î","ï","ð","ñ","ò","ó","ô","õ","ö","ø","ù","ú",
              "û","ü","ý","þ">>
AsciiLetters == {UpperSeq[i] : i \in 1..26} \cup {LowerSeq[i] : i \in 1..26}
DigitSeq == <<"0","1","2","3","4","5","6","7","8","9">>
DigitChars == {DigitSeq[i] : i \in 1..10}
\* the characters c with c.isspace(), among those a string here can hold:
\* U+0009..U+000D, U+001C..U+001F, U+0020, U+0085, U+00A0.  str.strip() drops
\* them and the pattern class \s matches them.
Whitespace == {"\t", "\n", "", "\f", "\r", "", "", "", "", " ", "", " "}

\* str.lower() on one character: every other character a string here can
\* hold is its own image (the digits, the lowercase letters, U+00DF, U+00FF)
LowerChar(c) ==
    IF \E i \in 1..Len(UpperSeq) : UpperSeq[i] = c
    THEN LowerSeq[CHOOSE i \in 1..Len(UpperSeq) : UpperSeq[i] = c]
    ELSE c

\* str.lower()
Lower(s) == [i \in 1..Len(s) |-> LowerChar(s[i])]

\* str.strip(chars): drop the leading and trailing characters that are in cs
StripChars(s, cs) ==
    IF \A i \in 1..Len(s) : s[i] \in cs
    THEN <<>>
    ELSE LET first == CHOOSE i \in 1..Len(s) :
                          s[i] \notin cs /\ \A j \in 1..(i-1) : s[j] \in cs
             last == CHOOSE i \in 1..Len(s) :
                          s[i] \notin cs /\ \A j \in (i+1)..Len(s) : s[j] \in cs
         IN SubSeq(s, first, last)

\* str.strip()
Strip(s) == StripChars(s, Whitespace)

\* str(n) for an int n >= 0
RECURSIVE IntToStr(_)
IntToStr(n) ==
    IF n < 10 THEN <<DigitSeq[n + 1]>>
    ELSE IntToStr(n \div 10) \o <<DigitSeq[(n % 10) + 1]>>

----------------------------------------------------------------------------
(* shema.py: the typed document *)

\* MultiChoiceItem
MultiChoiceItem(text, isCorrect) == [Text |-> text, IsCorrect |-> isCorrect]

\* TrueFalseAnswer
TrueFalseAnswer(b) == [IsTrueOrFlase |-> b]

\* AnswerSchema: AnswerType, Optional[TrueFalseAnswer], Optional[List[MultiChoiceItem]]
AnswerSchema(at, tf, mc) ==
    [AnswerType |-> at, TrueFalseAnswers |-> tf, MultiChoiceAnswer |-> mc]

\* QuestionItem
QuestionItem(text, wait, answer) ==
    [Question |-> text, WaitTimeInSec |-> wait, Answer |-> answer]

\* Quiz
Quiz(questions) == [Questions |-> questions]

\* Field constraints of shema.py
QuestionMinLength == 3
OptionTextMinLength == 1
WaitTimeMin == 1
WaitTimeMax == 60

\* @model_validator(mode="before") of AnswerSchema, on a dict.  A dict is a
\* record of Optionals: <<>> for an absent key, <<v>> for a key holding v.
_normalize_input(d) ==
    LET at == d.AnswerType
    IN IF at = Some(0) THEN [d EXCEPT !.MultiChoiceAnswer = None]
       ELSE IF at = Some(1) THEN [d EXCEPT !.TrueFalseAnswers = None]
       ELSE d

\* Field validation of AnswerSchema: the Literal[0, 1] tag, and the
\* min_length of every option Text.  An absent key takes the default None.
FieldValue(key) == IF IsNone(key) THEN None ELSE Get(key)

FieldsValid(d) ==
    /\ ~IsNone(d.AnswerType)
    /\ Get(d.AnswerType) \in {0, 1}
    /\ LET mc == FieldValue(d.MultiChoiceAnswer)
       IN IsNone(mc) \/ \A i \in 1..Len(Get(mc)) :
                            Len(Get(mc)[i].Text) >= OptionTextMinLength

\* @model_validator(mode="after") of AnswerSchema: Optional error, and the
\* object as the validator leaves it.
_validate_shape(self) ==
    IF self.AnswerType = 0
    THEN IF IsNone(self.TrueFalseAnswers)
         THEN [err |-> Some(<<"TrueFalseAnswers must be provided when AnswerType=0.">>),
               value |-> None]
         ELSE [err |-> None, value |-> Some([self EXCEPT !.MultiChoiceAnswer = None])]
    ELSE LET mc == self.MultiChoiceAnswer
         IN IF IsNone(mc) \/ Len(Get(mc)) = 0
            THEN [err |-> Some(<<"MultiChoiceAnswer must be provided when AnswerType=1.">>),
                  value |-> None]
            ELSE IF ~ \E i \in 1..Len(Get(mc)) : Get(mc)[i].IsCorrect
            THEN [err |-> Some(<<"MultiChoiceAnswer must contain at least one IsCorrect=true option.">>),
                  value |-> None]
            ELSE IF \E i, j \in 1..Len(Get(mc)) :
                        /\ i < j
                        /\ Lower(Strip(Get(mc)[i].Text)) = Lower(Strip(Get(mc)[j].Text))
            THEN [err |-> Some(<<"MultiChoiceAnswer contains duplicate Text options.">>),
                  value |-> None]
            ELSE [err |-> None, value |-> Some([self EXCEPT !.TrueFalseAnswers = None])]

\* AnswerSchema.model_validate(d): before-validator, fields, after-validator
AnswerSchemaValidate(d) ==
    LET n == _normalize_input(d)
    IN IF ~FieldsValid(n)
       THEN [err |-> Some(<<"validation error for AnswerSchema">>), value |-> None]
       ELSE _validate_shape(AnswerSchema(Get(n.AnswerType),
                                        FieldValue(n.TrueFalseAnswers),
                                        FieldValue(n.MultiChoiceAnswer)))

\* QuestionItem.model_validate on a dict [Question, WaitTimeInSec, Answer]
QuestionItemValidate(d) ==
    LET a == AnswerSchemaValidate(d.Answer)
    IN IF Len(d.Question) < QuestionMinLength
          \/ d.WaitTimeInSec < WaitTimeMin \/ d.WaitTimeInSec > WaitTimeMax
       THEN [err |-> Some(<<"validation error for QuestionItem">>), value |-> None]
       ELSE IF ~IsNone(a.err) THEN a
       ELSE [err |-> None,
             value |-> Some(QuestionItem(d.Question, d.WaitTimeInSec, Get(a.value)))]

\* Quiz.model_validate on a dict [Questions]: every item must validate
QuizValidate(d) ==
    LET qs == [i \in 1..Len(d.Questions) |-> QuestionItemValidate(d.Questions[i])]
    IN IF \E i \in 1..Len(qs) : ~IsNone(qs[i].err)
       THEN [err |-> qs[CHOOSE i \in 1..Len(qs) :
                           /\ ~IsNone(qs[i].err)
                           /\ \A j \in 1..(i-1) : IsNone(qs[j].err)].err,
             value |-> None]
       ELSE [err |-> None,
             value |-> Some(Quiz([i \in 1..Len(qs) |-> Get(qs[i].value)]))]

----------------------------------------------------------------------------
(* generator.py: _sanitize_quiz and _validate_content_rules *)

\* SanitizeQuestion with the stray payload of a true/false answer set to an
\* empty list instead of None
SanitizeQuestionEmptyList(q) ==
    IF q.Answer.AnswerType = 0
    THEN [q EXCEPT !.Answer.MultiChoiceAnswer = Some(<<>>)]
    ELSE [q EXCEPT !.Answer.TrueFalseAnswers = None]

\* the loop body of _sanitize_quiz on one question
SanitizeQuestion(q) ==
    IF q.Answer.AnswerType = 0
    THEN [q EXCEPT !.Answer.MultiChoiceAnswer = None]
    ELSE [q EXCEPT !.Answer.TrueFalseAnswers = None]

\* _sanitize_quiz removing the first question that carries a payload of the
\* other kind instead of clearing the payload
_sanitize_quiz_drop_first(quiz) ==
    LET qs == quiz.Questions
        stray == {i \in 1..Len(qs) : SanitizeQuestion(qs[i]) # qs[i]}
    IN IF stray = {} THEN quiz
       ELSE LET k == CHOOSE i \in stray : \A j \in stray : i <= j
            IN Quiz(SubSeq(qs, 1, k - 1) \o SubSeq(qs, k + 1, Len(qs)))

_sanitize_quiz(quiz) ==
    Quiz([i \in 1..Len(quiz.Questions) |-> SanitizeQuestion(quiz.Questions[i])])

\* number of options a multiple-choice answer must have
NumOptions == 4
\* number of options that must be correct
NumCorrect == 1

\* sum(1 for opt in options if opt.IsCorrect)
CorrectCount(options) == Cardinality({i \in 1..Len(options) : options[i].IsCorrect})

\* ValidateAnswer with "correct > 1" for "correct != 1"
ValidateAnswerAtMostOne(a) ==
    IF a.AnswerType = 0
    THEN IF IsNone(a.TrueFalseAnswers)
         THEN Some(<<"AnswerType=0 must have TrueFalseAnswers.">>)
         ELSE IF ~IsNone(a.MultiChoiceAnswer)
         THEN Some(<<"AnswerType=0 must not have MultiChoiceAnswer.">>)
         ELSE None
    ELSE IF IsNone(a.MultiChoiceAnswer)
            \/ Len(Get(a.MultiChoiceAnswer)) = 0
            \/ Len(Get(a.MultiChoiceAnswer)) # NumOptions
         THEN Some(<<"AnswerType=1 must have exactly 4 multi choice options.">>)
         ELSE IF CorrectCount(Get(a.MultiChoiceAnswer)) > NumCorrect
         THEN Some(<<"AnswerType=1 must have exactly one correct option.">>)
         ELSE IF ~IsNone(a.TrueFalseAnswers)
         THEN Some(<<"AnswerType=1 must not have TrueFalseAnswers.">>)
         ELSE None

\* the checks _validate_content_rules makes on the answer of one question:
\* Optional error message
ValidateAnswer(a) ==
    IF a.AnswerType = 0
    THEN IF IsNone(a.TrueFalseAnswers)
         THEN Some(<<"AnswerType=0 must have TrueFalseAnswers.">>)
         ELSE IF ~IsNone(a.MultiChoiceAnswer)
         THEN Some(<<"AnswerType=0 must not have MultiChoiceAnswer.">>)
         ELSE None
    ELSE IF IsNone(a.MultiChoiceAnswer)
            \/ Len(Get(a.MultiChoiceAnswer)) = 0
            \/ Len(Get(a.MultiChoiceAnswer)) # NumOptions
         THEN Some(<<"AnswerType=1 must have exactly 4 multi choice options.">>)
         ELSE IF CorrectCount(Get(a.MultiChoiceAnswer)) # NumCorrect
         THEN Some(<<"AnswerType=1 must have exactly one correct option.">>)
         ELSE IF ~IsNone(a.TrueFalseAnswers)
         THEN Some(<<"AnswerType=1 must not have TrueFalseAnswers.">>)
         ELSE None

\* the for loop of _validate_content_rules from question i on
RECURSIVE ValidateFrom(_, _, _, _, _)
ValidateFrom(qs, i, seen_q, has_tf, has_mc) ==
    IF i > Len(qs)
    THEN IF ~has_tf \/ ~has_mc
         THEN Some(<<"Quiz must include both true/false and multiple-choice questions.">>)
         ELSE None
    ELSE LET qi == qs[i]
             qtxt == Lower(Strip(qi.Question))
             e == ValidateAnswer(qi.Answer)
         IN IF qtxt \in seen_q
            THEN Some(<<"Duplicate questions detected.">>)
            ELSE IF ~IsNone(e) THEN e
            ELSE ValidateFrom(qs, i + 1, seen_q \cup {qtxt},
                              has_tf \/ qi.Answer.AnswerType = 0,
                              has_mc \/ qi.Answer.AnswerType # 0)

\* _validate_content_rules without the test of the number of questions
_validate_content_rules_no_minimum(quiz, minq) ==
    ValidateFrom(quiz.Questions, 1, {}, FALSE, FALSE)

\* _validate_content_rules: None when it returns, the message of the
\* ValueError when it raises
_validate_content_rules(quiz, minq) ==
    IF Len(quiz.Questions) < minq
    THEN Some(<<"Too few questions: ">> \o IntToStr(Len(quiz.Questions))
              \o <<" < ">> \o IntToStr(minq))
    ELSE ValidateFrom(quiz.Questions, 1, {}, FALSE, FALSE)

----------------------------------------------------------------------------
(* generator.py: _extract_json_object_from_error and the repair prompts *)

\* the first index >= i of msg that holds no whitespace (Len(msg) + 1 if none)
SkipWs(msg, i) ==
    IF \E k \in i..Len(msg) : msg[k] \notin Whitespace
    THEN CHOOSE k \in i..Len(msg) :
             msg[k] \notin Whitespace /\ \A m \in i..(k-1) : msg[m] \in Whitespace
    ELSE Len(msg) + 1

\* the positions f of a "for" at which the tail of the pattern (whitespace,
\* "for", whitespace, "TypeAdapter") matches, for a group that starts at the
\* brace at j
ForEnds(msg, j) ==
    {f \in (j + 2)..Len(msg) :
        /\ msg[f] = "for"
        /\ msg[f - 1] \in Whitespace
        /\ SkipWs(msg, f + 1) > f + 1
        /\ SkipWs(msg, f + 1) <= Len(msg)
        /\ msg[SkipWs(msg, f + 1)] = "TypeAdapter"}

\* the positions i of a "parsing" at which the whole pattern matches
MatchStarts(msg) ==
    {i \in 1..Len(msg) :
        /\ msg[i] = "parsing"
        /\ SkipWs(msg, i + 1) > i + 1
        /\ SkipWs(msg, i + 1) <= Len(msg)
        /\ msg[SkipWs(msg, i + 1)] = "{"
        /\ ForEnds(msg, SkipWs(msg, i + 1)) # {}}

Min(S) == CHOOSE x \in S : \A y \in S : x <= y
Max(S) == CHOOSE x \in S : \A y \in S : x >= y

\* _extract_json_object_from_error(msg): Optional[str]
_extract_json_object_from_error(msg) ==
    IF MatchStarts(msg) = {} THEN None
    ELSE LET i == Min(MatchStarts(msg))               \* re.search: leftmost match
             j == SkipWs(msg, i + 1)
             f == Max(ForEnds(msg, j))                \* .* is greedy
             candidate == Strip(SubSeq(msg, j, f - 2))  \* m.group(1).strip()
             braces == {k \in 1..Len(candidate) : candidate[k] = "}"}
         IN IF braces = {} THEN None                  \* rfind("}") == -1
            ELSE Some(SubSeq(candidate, 1, Max(braces)))

\* the prompt of the "if raw:" branch
RepairPrompt(instruction, raw) ==
    << "You previously produced invalid JSON for the required schema.\n",
       "Fix it and output ONLY the corrected JSON object.\n\n",
       "Original user request:\n" >>
    \o instruction
    \o << "\n\n", "Invalid JSON you produced:\n" >>
    \o raw
    \o << "\n\n",
          "Fix rules:\n",
          "- Remove fields that are not allowed for the given AnswerType.\n",
          "- Ensure at least the minimum number of questions.\n",
          "- Ensure multiple-choice has 4 options and exactly one correct.\n",
          "- Output ONLY JSON.\n" >>

ExclusiveFieldReminder ==
    "Do not include MultiChoiceAnswer when AnswerType=0, and do not include TrueFalseAnswers when AnswerType=1."

\* the prompt of the "else" branch of "if raw:"
ReminderPrompt(instruction) ==
    instruction
    \o << "\n\n", "IMPORTANT: Output ONLY the JSON object. ", ExclusiveFieldReminder >>

\* f"{type(e).__name__}: {e}"
ErrorText(e) == e.name \o <<": ">> \o e.msg

\* ErrorPrompt without the message of the exception
ErrorPromptNameOnly(instruction, e) ==
    instruction
    \o << "\n\n", "IMPORTANT: Follow the schema strictly and output ONLY JSON. ",
          "Previous error: " >>
    \o e.name

\* the prompt of the "except Exception" clause
ErrorPrompt(instruction, e) ==
    instruction
    \o << "\n\n", "IMPORTANT: Follow the schema strictly and output ONLY JSON. ",
          "Previous error: " >>
    \o ErrorText(e)

\* ExceptClause with "except ValueError" for "except Exception"
ExceptClauseValueError(e) ==
    IF "ModelBehaviorError" \in e.mro THEN "ModelBehaviorError"
    ELSE IF "ValueError" \in e.mro THEN "Exception"
    ELSE "none"

\* the except clause of _run_with_retries that handles e: the first whose
\* class is among the classes of e
ExceptClause(e) ==
    IF "ModelBehaviorError" \in e.mro THEN "ModelBehaviorError"
    ELSE IF "Exception" \in e.mro THEN "Exception"
    ELSE "none"

\* NextPrompt building on the current prompt instead of the instruction
NextPromptAccumulating(instruction, e) ==
    IF ExceptClause(e) = "ModelBehaviorError"
    THEN LET raw == _extract_json_object_from_error(e.msg)
         IN IF ~IsNone(raw) /\ Len(Get(raw)) > 0
            THEN RepairPrompt(prompt, Get(raw))
            ELSE ReminderPrompt(prompt)
    ELSE ErrorPrompt(prompt, e)

\* the prompt the handler of e leaves for the next attempt
NextPrompt(instruction, e) ==
    IF ExceptClause(e) = "ModelBehaviorError"
    THEN LET raw == _extract_json_object_from_error(e.msg)
         IN IF ~IsNone(raw) /\ Len(Get(raw)) > 0
            THEN RepairPrompt(instruction, Get(raw))
            ELSE ReminderPrompt(instruction)
    ELSE ErrorPrompt(instruction, e)

\* exception objects
Error(name, msg, mro) == [name |-> name, msg |-> msg, mro |-> mro]
ValueError(msg) == Error(<<"ValueError">>, msg, {"ValueError", "Exception", "BaseException"})
ModelBehaviorError(msg) ==
    Error(<<"ModelBehaviorError">>, msg,
          {"ModelBehaviorError", "AgentsException", "Exception", "BaseException"})

----------------------------------------------------------------------------
(* Bounded input sets *)

\* longest Quiz object handed to _sanitize_quiz / _validate_content_rules
MaxDocLen == 3
\* longest raw quiz handed to the schema
MaxRawLen == 2
\* largest min_questions
MaxMinQuestions == 3
\* longest Quiz the generator returns in the retry loop
MaxGenLen == 2

\* all sequences over S of length at most n
RECURSIVE SeqsUpTo(_, _)
SeqsUpTo(S, n) ==
    IF n = 0 THEN {<<>>}
    ELSE LET shorter == SeqsUpTo(S, n - 1)
         IN shorter \cup {Append(q, x) : q \in {r \in shorter : Len(r) = n - 1}, x \in S}

QEva == <<"É","v","a">>
QEvaPadded == <<"\r","é","V","A"," ">>
QSea == <<"S","e","a">>
QSky == <<"S","k","y">>
QShort == <<"S"," ">>
DefaultWait == 10

OptA(c) == MultiChoiceItem(<<"A">>, c)
OptB(c) == MultiChoiceItem(<<"B">>, c)
OptC(c) == MultiChoiceItem(<<"C">>, c)
OptD(c) == MultiChoiceItem(<<"D">>, c)
OptE(c) == MultiChoiceItem(<<"E">>, c)
MC4One == <<OptA(FALSE), OptB(TRUE), OptC(FALSE), OptD(FALSE)>>
MC4Two == <<OptA(TRUE), OptB(TRUE), OptC(FALSE), OptD(FALSE)>>
MC4Zero == <<OptA(FALSE), OptB(FALSE), OptC(FALSE), OptD(FALSE)>>
MC3One == <<OptA(TRUE), OptB(FALSE), OptC(FALSE)>>
MC5One == <<OptA(FALSE), OptB(FALSE), OptC(FALSE), OptD(FALSE), OptE(TRUE)>>
MC4Dup == <<OptA(TRUE), MultiChoiceItem(<<"\f","a","">>, FALSE), OptC(FALSE), OptD(FALSE)>>
MC4Blank == <<OptA(TRUE), MultiChoiceItem(<<>>, FALSE), OptC(FALSE), OptD(FALSE)>>

\* answers that satisfy every rule
GoodAnswers ==
    { AnswerSchema(0, Some(TrueFalseAnswer(TRUE)), None),
      AnswerSchema(1, None, Some(MC4One)) }

\* answers whose only defect is a payload of the other kind
MixedAnswers ==
    { AnswerSchema(0, Some(TrueFalseAnswer(FALSE)), Some(<<>>)),
      AnswerSchema(0, Some(TrueFalseAnswer(TRUE)), Some(MC4One)),
      AnswerSchema(1, Some(TrueFalseAnswer(TRUE)), Some(MC4One)) }

\* answers with a defect of their own payload
BadAnswers ==
    { AnswerSchema(0, None, None),
      AnswerSchema(1, None, None),
      AnswerSchema(1, None, Some(<<>>)),
      AnswerSchema(1, None, Some(MC4Two)),
      AnswerSchema(1, None, Some(MC4Zero)),
      AnswerSchema(1, None, Some(MC3One)),
      AnswerSchema(1, None, Some(MC5One)) }

\* the questions Quiz objects are built from
DocItems ==
    {QuestionItem(t, DefaultWait, a) : t \in {QEva, QEvaPadded}, a \in GoodAnswers}
    \cup {QuestionItem(QSea, DefaultWait, AnswerSchema(1, None, Some(MC4One)))}
    \cup {QuestionItem(QSky, DefaultWait, a) : a \in MixedAnswers \cup BadAnswers}

Docs == {Quiz(qs) : qs \in SeqsUpTo(DocItems, MaxDocLen)}

\* a dict for an answer: <<>> for an absent key, <<v>> for a key holding v
RawAnswer(at, tf, mc) ==
    [AnswerType |-> at, TrueFalseAnswers |-> tf, MultiChoiceAnswer |-> mc]

RawAnswers ==
    { RawAnswer(Some(0), Some(Some(TrueFalseAnswer(TRUE))), None),
      RawAnswer(Some(0), Some(Some(TrueFalseAnswer(TRUE))), Some(Some(<<>>))),
      RawAnswer(Some(0), Some(Some(TrueFalseAnswer(FALSE))), Some(Some(MC4Blank))),
      RawAnswer(Some(0), Some(Some(TrueFalseAnswer(FALSE))), Some(None)),
      RawAnswer(Some(0), None, Some(Some(MC4One))),
      RawAnswer(Some(1), None, Some(Some(MC4One))),
      RawAnswer(Some(1), Some(None), Some(Some(MC5One))),
      RawAnswer(Some(1), Some(Some(TrueFalseAnswer(TRUE))), Some(Some(MC4Two))),
      RawAnswer(Some(1), Some(Some(TrueFalseAnswer(TRUE))), None),
      RawAnswer(Some(1), None, Some(Some(MC4Zero))),
      RawAnswer(Some(1), None, Some(Some(MC4Dup))),
      RawAnswer(Some(1), None, Some(Some(MC4Blank))),
      RawAnswer(Some(2), Some(Some(TrueFalseAnswer(TRUE))), Some(Some(MC4One))),
      RawAnswer(None, Some(Some(TrueFalseAnswer(TRUE))), None) }

RawItems ==
    {QuestionItem(t, DefaultWait, a) : t \in {QEva, QSea}, a \in RawAnswers}
    \cup {QuestionItem(QShort, DefaultWait,
                       RawAnswer(Some(0), Some(Some(TrueFalseAnswer(TRUE))), None)),
          QuestionItem(QSky, 0,
                       RawAnswer(Some(0), Some(Some(TrueFalseAnswer(TRUE))), None))}

RawQuizzes == {Quiz(qs) : qs \in SeqsUpTo(RawItems, MaxRawLen)}

EmptyQuiz == Quiz(<<>>)

----------------------------------------------------------------------------
(* Values of the variables of a component that is not running *)

NoFailure == [kind |-> "none", name |-> <<>>, msg |-> <<>>]

DocOff ==
    /\ dpc = "off" /\ rawQuiz = EmptyQuiz /\ doc0 = EmptyQuiz /\ doc = EmptyQuiz
    /\ dprev = EmptyQuiz /\ passes = 0 /\ dmin = 0 /\ dverdict = None

RetryOff ==
    /\ rpc = "idle" /\ user_prompt = <<>> /\ min_questions = 0 /\ max_attempts = 0
    /\ attempt = 0 /\ prompt = <<>> /\ result = None /\ raised = FALSE
    /\ inflight = 0 /\ invocations = 0 /\ issued = <<>> /\ lastFailure = NoFailure
    /\ generated = None /\ checked = None

\* the prompt source as main sees it.  file: what open(prompts_path) and
\* json.load make of thema.json ("missing", "undecodable": no UTF-8 text,
\* "invalid": no JSON text, "array": a JSON value that is no object, "object");
\* hasThema: the object has the key "thema"; isList and entries: the value of
\* data.get("thema", []), which is the empty list when the key is absent
PromptSource(file, hasThema, isList, entries) ==
    [file |-> file, hasThema |-> hasThema, isList |-> isList, entries |-> entries]

\* no prompt source is read outside main
NoSource == PromptSource("object", FALSE, TRUE, <<>>)

MainOff ==
    /\ mpc = "off" /\ source = NoSource /\ idx = 0
    /\ used_names = {} /\ assigned = <<>> /\ calls = <<>> /\ skipped = {}
    /\ files = {} /\ quiz_dir = TRUE /\ main_error = ""

----------------------------------------------------------------------------
(* The document pipeline: schema validation of the generator's JSON, then  *)
(* _sanitize_quiz and _validate_content_rules on the Quiz object.          *)

\* the inputs: a raw quiz for the schema, or a Quiz object for the two functions
InitDoc ==
    /\ \/ /\ dpc = "json" /\ rawQuiz \in RawQuizzes /\ doc0 = EmptyQuiz
       \/ /\ dpc = "object" /\ rawQuiz = EmptyQuiz /\ doc0 \in Docs
    /\ doc = doc0 /\ dprev = doc0
    /\ passes = 0 /\ dmin = 0 /\ dverdict = None
    /\ RetryOff /\ MainOff

\* Quiz.model_validate(rawQuiz), with the AnswerSchema validators
SchemaValidate ==
    /\ dpc = "json"
    /\ LET r == QuizValidate(rawQuiz)
       IN IF IsNone(r.err)
          THEN /\ dpc' = "object"
               /\ doc0' = Get(r.value) /\ doc' = Get(r.value) /\ dprev' = Get(r.value)
          ELSE /\ dpc' = "rejected"
               /\ UNCHANGED <<doc0, doc, dprev>>
    /\ UNCHANGED <<rawQuiz, passes, dmin, dverdict, retryVars, mainVars>>

\* largest number of _sanitize_quiz passes made over one object
MaxPasses == 2

\* quiz = _sanitize_quiz(quiz)
Sanitize ==
    /\ dpc = "object" /\ passes < MaxPasses
    /\ dprev' = doc
    /\ doc' = _sanitize_quiz(doc)
    /\ passes' = passes + 1
    /\ UNCHANGED <<dpc, rawQuiz, doc0, dmin, dverdict, retryVars, mainVars>>

\* _validate_content_rules(quiz, min_questions=mq)
Validate ==
    /\ dpc = "object" /\ passes <= 1
    /\ \E mq \in 0..MaxMinQuestions :
          /\ dmin' = mq
          /\ dverdict' = _validate_content_rules(doc, mq)
    /\ dpc' = "validated"
    /\ UNCHANGED <<rawQuiz, doc0, doc, dprev, passes, retryVars, mainVars>>

NextDoc == SchemaValidate \/ Sanitize \/ Validate

SpecDoc == InitDoc /\ [][NextDoc]_vars

----------------------------------------------------------------------------
(* _run_with_retries *)

\* largest max_attempts of a direct call
MaxAttempts == 3

UserPrompts == { <<"list 3 facts about the moon">>, <<"Kviz: ", "Budapest">> }

\* the questions of the Quiz objects Runner.run returns
GenItems ==
    { QuestionItem(QEva, DefaultWait, AnswerSchema(0, Some(TrueFalseAnswer(TRUE)), None)),
      QuestionItem(QEvaPadded, DefaultWait, AnswerSchema(1, None, Some(MC4One))),
      QuestionItem(QSea, DefaultWait, AnswerSchema(1, None, Some(MC4One))),
      QuestionItem(QSea, DefaultWait, AnswerSchema(1, None, Some(MC4Two))),
      QuestionItem(QSky, DefaultWait, AnswerSchema(0, Some(TrueFalseAnswer(FALSE)), Some(<<>>))),
      QuestionItem(QSky, DefaultWait, AnswerSchema(1, Some(TrueFalseAnswer(TRUE)), Some(MC4One))) }

GenDocs == {Quiz(qs) : qs \in SeqsUpTo(GenItems, MaxGenLen)}

\* str(e) of the ModelBehaviorError objects Runner.run raises
BehaviorMessages ==
    { <<"Invalid JSON when ", "parsing", " ", "{", "Questions", "}", " ", "for", " ",
        "TypeAdapter", "(Quiz); 1 validation error for Quiz">>,
      <<"Invalid JSON when ", "parsing", " ", "{", "Questions", "}", "]", "\r", "for", "\t",
        "TypeAdapter", " ", "{", "x", "}", " ", "for", " ", "TypeAdapter", "(Quiz)">>,
      <<"Invalid JSON when ", "parsing", " ", "{", "Questions", " ", "for", " ",
        "TypeAdapter", "(Quiz)">>,
      <<"Tool ", "lookup", " not found in agent Quiz Generator">> }

\* the other exceptions Runner.run raises
OtherErrors ==
    { Error(<<"MaxTurnsExceeded">>, <<"Max turns (50) exceeded">>,
            {"MaxTurnsExceeded", "AgentsException", "Exception", "BaseException"}),
      Error(<<"APIConnectionError">>, <<"Connection error.">>,
            {"APIConnectionError", "APIError", "OpenAIError", "Exception", "BaseException"}) }

\* what Runner.run returns or raises: every outcome above in a direct call of
\* _run_with_retries, a few of each kind in a batch run of main
BatchGenDocs ==
    { Quiz(<<QuestionItem(QSky, DefaultWait, AnswerSchema(0, Some(TrueFalseAnswer(FALSE)), Some(<<>>))),
             QuestionItem(QSea, DefaultWait, AnswerSchema(1, None, Some(MC4One)))>>),
      Quiz(<<QuestionItem(QEva, DefaultWait, AnswerSchema(0, Some(TrueFalseAnswer(TRUE)), None)),
             QuestionItem(QSea, DefaultWait, AnswerSchema(1, None, Some(MC4One))),
             QuestionItem(QSky, DefaultWait, AnswerSchema(0, Some(TrueFalseAnswer(FALSE)), None))>>) }

BatchErrors ==
    { ModelBehaviorError(<<"Invalid JSON when ", "parsing", " ", "{", "Questions", "}", " ",
                           "for", " ", "TypeAdapter", "(Quiz); 1 validation error for Quiz">>) }

RunnerQuizzes == IF mpc = "direct" THEN GenDocs ELSE BatchGenDocs

RunnerErrors ==
    IF mpc = "direct"
    THEN {ModelBehaviorError(m) : m \in BehaviorMessages} \cup OtherErrors
    ELSE BatchErrors

\* entry of _run_with_retries(agent, instruction, minq, maxa): "prompt = user_prompt"
CallRetries(instruction, minq, maxa) ==
    /\ rpc' = "top"
    /\ user_prompt' = instruction
    /\ min_questions' = minq
    /\ max_attempts' = maxa
    /\ attempt' = 1
    /\ prompt' = instruction
    /\ result' = None /\ raised' = FALSE
    /\ inflight' = 0 /\ invocations' = 0 /\ issued' = <<>>
    /\ lastFailure' = NoFailure
    /\ generated' = None /\ checked' = None

\* a direct call of _run_with_retries
InitRetry ==
    /\ rpc = "top"
    /\ user_prompt \in UserPrompts
    /\ min_questions \in 0..MaxMinQuestions
    /\ max_attempts \in 0..MaxAttempts
    /\ attempt = 1
    /\ prompt = user_prompt
    /\ result = None /\ raised = FALSE
    /\ inflight = 0 /\ invocations = 0 /\ issued = <<>>
    /\ lastFailure = NoFailure
    /\ generated = None /\ checked = None
    /\ DocOff
    /\ mpc = "direct" /\ source = NoSource /\ idx = 0
    /\ used_names = {} /\ assigned = <<>> /\ calls = <<>> /\ skipped = {}
    /\ files = {} /\ quiz_dir = TRUE /\ main_error = ""

\* an exception e raised inside the try block: the matching except clause
\* rebuilds the prompt and the loop goes on; with no matching clause e leaves
\* the function
Except(e) ==
    /\ lastFailure' = [kind |-> ExceptClause(e), name |-> e.name, msg |-> e.msg]
    /\ IF ExceptClause(e) = "none"
       THEN /\ rpc' = "raised" /\ raised' = TRUE
            /\ UNCHANGED <<prompt, attempt>>
       ELSE /\ prompt' = NextPrompt(user_prompt, e)
            /\ attempt' = attempt + 1
            /\ rpc' = "top"
            /\ UNCHANGED raised

\* RunnerRun with the loop running one attempt too many
RunnerRunOneMore ==
    /\ rpc = "top" /\ attempt <= max_attempts + 1
    /\ rpc' = "await"
    /\ inflight' = inflight + 1
    /\ invocations' = invocations + 1
    /\ issued' = prompt
    /\ generated' = None /\ checked' = None
    /\ UNCHANGED <<user_prompt, min_questions, max_attempts, attempt, prompt, result,
                   raised, lastFailure, docVars, mainVars>>

\* "for attempt in range(1, max_attempts + 1)": the body is entered and
\* Runner.run(agent, input=prompt, ...) is called and awaited
RunnerRun ==
    /\ rpc = "top" /\ attempt <= max_attempts
    /\ rpc' = "await"
    /\ inflight' = inflight + 1
    /\ invocations' = invocations + 1
    /\ issued' = prompt
    /\ generated' = None /\ checked' = None   \* res and quiz of the last iteration are dead
    /\ UNCHANGED <<user_prompt, min_questions, max_attempts, attempt, prompt, result,
                   raised, lastFailure, docVars, mainVars>>

\* Runner.run returns a Quiz: sanitised, validated, and returned if valid;
\* the validator's ValueError is handled as any exception of the try block
RunnerReturns ==
    /\ rpc = "await"
    /\ \E quiz \in RunnerQuizzes :
          LET q == _sanitize_quiz(quiz)
              v == _validate_content_rules(q, min_questions)
          IN /\ generated' = Some(quiz)
             /\ checked' = Some(q)
             /\ IF IsNone(v)
                THEN /\ result' = Some(q)
                     /\ rpc' = "returned"
                     /\ UNCHANGED <<prompt, attempt, raised, lastFailure>>
                ELSE /\ Except(ValueError(Get(v)))
                     /\ UNCHANGED result
    /\ inflight' = inflight - 1
    /\ UNCHANGED <<user_prompt, min_questions, max_attempts, invocations, issued,
                   docVars, mainVars>>

\* Runner.run raises
RunnerRaises ==
    /\ rpc = "await"
    /\ \E e \in RunnerErrors : Except(e)
    /\ inflight' = inflight - 1
    /\ UNCHANGED <<user_prompt, min_questions, max_attempts, result, invocations, issued,
                   generated, checked, docVars, mainVars>>

\* the for loop is exhausted: "return None"
ReturnNone ==
    /\ rpc = "top" /\ attempt > max_attempts
    /\ result' = None
    /\ rpc' = "returned"
    /\ UNCHANGED <<user_prompt, min_questions, max_attempts, attempt, prompt, raised,
                   inflight, invocations, issued, lastFailure, generated, checked,
                   docVars, mainVars>>

NextRetry == RunnerRun \/ RunnerReturns \/ RunnerRaises \/ ReturnNone

SpecRetry == InitRetry /\ [][NextRetry]_vars

----------------------------------------------------------------------------
(* _sanitize_filename *)

\* the characters the first re.sub keeps: [a-zA-Z0-9_-]
FilenameChars == AsciiLetters \cup DigitChars \cup {"_", "-"}

\* a character a substitution leaves in the string ("" marks a dropped one)
Kept(c) == c # ""

\* re.sub(r"[^a-zA-Z0-9_-]+", "_", s): every maximal run of other characters
\* becomes one underscore (its last character; the ones before it are dropped)
SubOtherRuns(s) ==
    SelectSeq([i \in 1..Len(s) |->
                  IF s[i] \in FilenameChars THEN s[i]
                  ELSE IF i < Len(s) /\ s[i + 1] \notin FilenameChars THEN ""
                  ELSE "_"],
              Kept)

\* re.sub(r"_+", "_", s): every run of underscores becomes one underscore
CollapseUnderscores(s) ==
    SelectSeq([i \in 1..Len(s) |->
                  IF s[i] = "_" /\ i < Len(s) /\ s[i + 1] = "_" THEN "" ELSE s[i]],
              Kept)

_sanitize_filename(name) ==
    LET s == StripChars(CollapseUnderscores(SubOtherRuns(Strip(name))), {"_"})
    IN IF s = <<>> THEN <<"q", "u", "i", "z">> ELSE s

----------------------------------------------------------------------------
(* main *)

\* max_attempts of the call main makes
MainMaxAttempts == 4
\* most entries of a prompt source
MaxEntries == 3

\* a JSON value read by entry.get: isStr is isinstance(value, str)
StrValue(s) == [isStr |-> TRUE, val |-> s]
NotAStr == [isStr |-> FALSE, val |-> <<>>]
\* an element of data["thema"]: isDict is isinstance(entry, dict)
Entry(name, instruction) == [isDict |-> TRUE, name |-> name, instruction |-> instruction]
NotADict == [isDict |-> FALSE, name |-> NotAStr, instruction |-> NotAStr]

MoonPrompt == <<"list 3 facts about the moon">>
CityPrompt == <<"Kviz: ", "Budapest">>

\* the longest file name, in bytes, the file system of "quiz/" takes
FileNameMax == 255

\* a name one letter too long for "<name>.json" to be a file name
LongName == [i \in 1..(FileNameMax - Len(".json") + 1) |-> "a"]

EntryPool ==
    { Entry(StrValue(<<"a">>), StrValue(MoonPrompt)),
      Entry(StrValue(<<"a", "_", "2">>), StrValue(CityPrompt)),
      Entry(StrValue(<<"", "a", "É", "?">>), StrValue(CityPrompt)),
      Entry(StrValue(<<"\r", "">>), StrValue(MoonPrompt)),
      Entry(StrValue(LongName), StrValue(MoonPrompt)),
      Entry(StrValue(<<"b">>), NotAStr),
      NotADict }

\* the prompt sources: an object whose "thema" is a list of entries, an
\* object whose "thema" is no list, one without the key, and the files that
\* give no object
Sources ==
    {PromptSource("object", TRUE, TRUE, es) : es \in SeqsUpTo(EntryPool, MaxEntries)}
    \cup {PromptSource("object", TRUE, FALSE, <<>>), PromptSource("object", FALSE, TRUE, <<>>)}
    \cup {PromptSource(f, FALSE, FALSE, <<>>) : f \in {"missing", "undecodable", "invalid", "array"}}

\* EntryValid without the test of the instruction
EntryValidNameOnly(entry) ==
    /\ entry.isDict
    /\ entry.name.isStr /\ Strip(entry.name.val) # <<>>

\* the two "isinstance(...) and strip()" tests and the isinstance(entry, dict) test
EntryValid(entry) ==
    /\ entry.isDict
    /\ entry.name.isStr /\ Strip(entry.name.val) # <<>>
    /\ entry.instruction.isStr /\ Strip(entry.instruction.val) # <<>>

\* used_names.get(name, 0)
UsedCount(used, name) ==
    IF \E p \in used : p[1] = name
    THEN (CHOOSE p \in used : p[1] = name)[2]
    ELSE 0

\* safe_name of an entry whose sanitised name has been used count times, itself included
SafeName(safe_base, count) ==
    IF count > 1 THEN safe_base \o <<"_">> \o IntToStr(count) ELSE safe_base

OutPath(safe_name) == <<"quiz/">> \o safe_name \o <<".json">>

InitMain ==
    /\ mpc = "start"
    /\ source \in Sources
    /\ idx = 0 /\ used_names = {} /\ assigned = <<>> /\ calls = <<>> /\ skipped = {}
    /\ files = {} /\ quiz_dir \in BOOLEAN /\ main_error = ""
    /\ DocOff
    /\ rpc = "idle" /\ user_prompt = <<>> /\ min_questions \in {Len(d.Questions) : d \in BatchGenDocs}
    /\ max_attempts = 0
    /\ attempt = 0 /\ prompt = <<>> /\ result = None /\ raised = FALSE
    /\ inflight = 0 /\ invocations = 0 /\ issued = <<>> /\ lastFailure = NoFailure
    /\ generated = None /\ checked = None

\* the exception lines 359-364 raise on a prompt source, "" if none:
\* open(prompts_path) on a missing file, json.load on a file that is no UTF-8
\* text or no JSON text, data.get on a value that is no object, and the raise
\* of 364 when data.get("thema", []) is no list or is empty
LoadError(src) ==
    IF src.file = "missing" THEN "FileNotFoundError"
    ELSE IF src.file = "undecodable" THEN "UnicodeDecodeError"
    ELSE IF src.file = "invalid" THEN "JSONDecodeError"
    ELSE IF src.file = "array" THEN "AttributeError"
    ELSE IF ~src.isList \/ src.entries = <<>> THEN "ValueError"
    ELSE ""

\* the prompt source is read: main raises, or enters the loop over the entries
LoadSource ==
    /\ mpc = "start"
    /\ main_error' = LoadError(source)
    /\ IF LoadError(source) # ""
       THEN mpc' = "raised" /\ idx' = idx
       ELSE mpc' = "loop" /\ idx' = 1
    /\ UNCHANGED <<source, used_names, assigned, calls, skipped, files, quiz_dir, docVars,
                   retryVars>>

\* an entry that fails one of the three tests is reported and skipped
SkipEntry ==
    /\ mpc = "loop" /\ idx <= Len(source.entries)
    /\ ~EntryValid(source.entries[idx])
    /\ skipped' = skipped \cup {idx}
    /\ idx' = idx + 1
    /\ UNCHANGED <<mpc, source, used_names, assigned, calls, files, quiz_dir, main_error, docVars,
                   retryVars>>

\* a well-formed entry: its output path is fixed and _run_with_retries is called
StartEntry ==
    /\ mpc = "loop" /\ idx <= Len(source.entries)
    /\ EntryValid(source.entries[idx])
    /\ LET entry == source.entries[idx]
           safe_base == _sanitize_filename(entry.name.val)
           count == UsedCount(used_names, safe_base) + 1
       IN /\ used_names' = {p \in used_names : p[1] # safe_base} \cup {<<safe_base, count>>}
          /\ assigned' = Append(assigned,
                                [entry |-> idx, path |-> OutPath(SafeName(safe_base, count))])
          /\ CallRetries(entry.instruction.val, min_questions, MainMaxAttempts)
    /\ mpc' = "calling"
    /\ UNCHANGED <<source, idx, calls, skipped, files, quiz_dir, main_error, docVars>>

\* the length in bytes of the file name of an output path "quiz/<safe_name>.json"
FileNameLen(path) == (Len(path) - 2) + Len(path[Len(path)])

\* open(out_path, "w") raises OSError: the directory is missing
\* (FileNotFoundError) or the file name is too long (errno ENAMETOOLONG)
OpenRaises(path) == ~quiz_dir \/ FileNameLen(path) > FileNameMax

\* the class of the exception open(out_path, "w") raises
OpenError(path) == IF ~quiz_dir THEN "FileNotFoundError" ELSE "OSError"

\* _run_with_retries has returned.  None: the failure is reported and the
\* loop moves on.  A quiz: open(out_path, "w") either raises OSError, which
\* leaves main with nothing written and the later entries unprocessed, or
\* the quiz is written to the entry's path and the loop moves on.
FinishEntry ==
    /\ mpc = "calling" /\ rpc = "returned"
    /\ LET path == assigned[Len(assigned)].path
       IN IF ~IsNone(result) /\ OpenRaises(path)
          THEN /\ mpc' = "raised" /\ main_error' = OpenError(path)
               /\ UNCHANGED <<idx, calls, files, retryVars>>
          ELSE /\ IF IsNone(result)
                  THEN /\ files' = files
                       /\ calls' = Append(calls, [entry |-> idx, quiz |-> FALSE,
                                                  saved |-> FALSE])
                  ELSE /\ files' = {p \in files : p[1] # path} \cup {<<path, idx>>}
                       /\ calls' = Append(calls, [entry |-> idx, quiz |-> TRUE,
                                                  saved |-> TRUE])
               /\ idx' = idx + 1
               /\ mpc' = "loop"
               /\ rpc' = "idle" /\ user_prompt' = <<>> /\ max_attempts' = 0
               /\ attempt' = 0 /\ prompt' = <<>> /\ result' = None
               /\ invocations' = 0 /\ issued' = <<>> /\ lastFailure' = NoFailure
               /\ generated' = None /\ checked' = None
               /\ UNCHANGED <<min_questions, raised, inflight, main_error>>
    /\ UNCHANGED <<source, used_names, assigned, skipped, quiz_dir, docVars>>

\* the for loop over the entries is exhausted
FinishMain ==
    /\ mpc = "loop" /\ idx > Len(source.entries)
    /\ mpc' = "done"
    /\ UNCHANGED <<source, idx, used_names, assigned, calls, skipped, files, quiz_dir, main_error,
                   docVars,
                   retryVars>>

Init == InitMain

Next ==
    \/ LoadSource \/ SkipEntry \/ StartEntry \/ FinishEntry \/ FinishMain
    \/ RunnerRun \/ RunnerReturns \/ RunnerRaises \/ ReturnNone

Spec == Init /\ [][Next]_vars

----------------------------------------------------------------------------
(* The document rules, stated on their own *)

\* the text two questions are compared by: trimmed of the str.isspace()
\* characters and lower-cased; on the strings held here lower-casing and simple
\* case folding give the same comparisons (U+00DF stays apart from "ss")
NormText(q) == Lower(Strip(q.Question))

TooFew(D, minq) == Len(D.Questions) < minq

HasDuplicate(D) ==
    \E i, j \in 1..Len(D.Questions) :
        i < j /\ NormText(D.Questions[i]) = NormText(D.Questions[j])

IsTrueFalse(q) == q.Answer.AnswerType = 0
IsMultiChoice(q) == q.Answer.AnswerType = 1

\* a TrueFalse item carries its boolean
OwnPayloadTrueFalse(a) == ~IsNone(a.TrueFalseAnswers)

\* a MultiChoice item carries exactly 4 options of which exactly one is correct
OwnPayloadMultiChoice(a) ==
    /\ ~IsNone(a.MultiChoiceAnswer)
    /\ Len(Get(a.MultiChoiceAnswer)) = 4
    /\ Cardinality({k \in 1..4 : Get(a.MultiChoiceAnswer)[k].IsCorrect}) = 1

OwnPayloadsSound(D) ==
    \A i \in 1..Len(D.Questions) :
        LET q == D.Questions[i]
        IN /\ IsTrueFalse(q) => OwnPayloadTrueFalse(q.Answer)
           /\ IsMultiChoice(q) => OwnPayloadMultiChoice(q.Answer)

\* no item carries the payload of the other kind
PayloadsExclusive(D) ==
    \A i \in 1..Len(D.Questions) :
        LET q == D.Questions[i]
        IN /\ IsTrueFalse(q) => IsNone(q.Answer.MultiChoiceAnswer)
           /\ IsMultiChoice(q) => IsNone(q.Answer.TrueFalseAnswers)

BothKinds(D) ==
    /\ \E i \in 1..Len(D.Questions) : IsTrueFalse(D.Questions[i])
    /\ \E i \in 1..Len(D.Questions) : IsMultiChoice(D.Questions[i])

\* every document invariant
DocumentSound(D, minq) ==
    /\ ~TooFew(D, minq)
    /\ ~HasDuplicate(D)
    /\ OwnPayloadsSound(D)
    /\ PayloadsExclusive(D)
    /\ BothKinds(D)

\* the only defects of D are payloads of the other kind
OnlyStrayPayloads(D, minq) ==
    /\ ~TooFew(D, minq)
    /\ ~HasDuplicate(D)
    /\ OwnPayloadsSound(D)
    /\ BothKinds(D)

----------------------------------------------------------------------------
(* Claims about the document functions, checked under SpecDoc *)

\* C4: for every document D and every min_questions, _validate_content_rules
\* raises if D has fewer than min_questions items, two items at any positions
\* with equal trimmed lower-case text, a TrueFalse item without its boolean or
\* with a multiple-choice payload, a MultiChoice item without exactly 4
\* options, without exactly one correct option or with a true/false payload,
\* no TrueFalse item, or no MultiChoice item; and it returns if none holds.
C4_ValidateDecides ==
    dpc = "validated" => (IsNone(dverdict) <=> DocumentSound(doc, dmin))

\* C4 witness: a duplicate at positions 1 and 3, not adjacent, in a document
\* with no other defect, is rejected as a duplicate.
C4_Witness ==
    /\ dpc = "validated"
    /\ Len(doc.Questions) = 3
    /\ NormText(doc.Questions[1]) = NormText(doc.Questions[3])
    /\ doc.Questions[1].Question # doc.Questions[3].Question
    /\ NormText(doc.Questions[1]) # NormText(doc.Questions[2])
    /\ OwnPayloadsSound(doc) /\ PayloadsExclusive(doc) /\ BothKinds(doc)
    /\ ~TooFew(doc, dmin)
    /\ dverdict = Some(<<"Duplicate questions detected.">>)

\* C5: after a pass of _sanitize_quiz, and after the validators of
\* AnswerSchema, no TrueFalse item carries a multiple-choice payload and no
\* MultiChoice item carries a true/false payload, whatever the fields held
\* before; a document whose only defects are such payloads passes
\* _validate_content_rules once sanitised.
C5_OtherPayloadCleared ==
    /\ passes >= 1 => PayloadsExclusive(doc)
    /\ (rawQuiz # EmptyQuiz /\ dpc \in {"object", "validated"}) => PayloadsExclusive(doc0)
    /\ (dpc = "validated" /\ passes >= 1 /\ OnlyStrayPayloads(doc0, dmin))
          => IsNone(dverdict)

\* C5 witness: a Quiz with a TrueFalse answer carrying MultiChoiceAnswer = []
\* and no other defect has been sanitised and has passed validation.
C5_Witness ==
    /\ dpc = "validated" /\ passes = 1
    /\ \E i \in 1..Len(doc0.Questions) :
          doc0.Questions[i].Answer = AnswerSchema(0, Some(TrueFalseAnswer(FALSE)), Some(<<>>))
    /\ ~PayloadsExclusive(doc0)
    /\ OnlyStrayPayloads(doc0, dmin)
    /\ IsNone(dverdict)

\* C6: a second pass of _sanitize_quiz leaves the document as the first pass
\* left it.
C6_SanitizeIdempotent ==
    passes >= 2 => doc = dprev

\* C6 witness: two passes have been made over a document that the first pass
\* changed.
C6_Witness ==
    /\ passes = 2
    /\ dprev # doc0
    /\ Len(doc0.Questions) >= 2

----------------------------------------------------------------------------
(* Claims about _run_with_retries, checked under SpecRetry *)

\* s begins with p
StartsWith(s, p) == Len(s) >= Len(p) /\ SubSeq(s, 1, Len(p)) = p

\* sub occurs in s
Contains(s, sub) ==
    \E i \in 0..(Len(s) - Len(sub)) : SubSeq(s, i + 1, i + Len(sub)) = sub

\* C1: _run_with_retries never raises to its caller, whatever the attempts
\* end with, and when every one of the max_attempts attempts has failed it
\* returns None.
C1_NeverRaises ==
    /\ ~raised /\ rpc # "raised"
    /\ attempt > max_attempts => (rpc \in {"top", "returned"} /\ IsNone(result))
    /\ (rpc = "returned" /\ IsNone(result)) => invocations = max_attempts

\* C1 witness: at least two attempts, all failed, the last one with an
\* exception other than ModelBehaviorError, and None has been returned.
C1_Witness ==
    /\ rpc = "returned" /\ IsNone(result)
    /\ max_attempts >= 2 /\ invocations = max_attempts
    /\ lastFailure.kind = "Exception"
    /\ lastFailure.name = <<"MaxTurnsExceeded">>

\* C2: a document returned by _run_with_retries satisfies every document
\* invariant: at least min_questions questions, no two questions with equal
\* trimmed lower-case text, a TrueFalse and a MultiChoice item, every
\* TrueFalse item with its boolean and no options, every MultiChoice item
\* with exactly 4 options, exactly one correct, and no boolean.
C2_ReturnedDocumentSound ==
    (rpc = "returned" /\ ~IsNone(result)) => DocumentSound(Get(result), min_questions)

\* C2 witness: a document has been returned that the generator produced with
\* a payload of the other kind, for min_questions = 2.
C2_Witness ==
    /\ rpc = "returned" /\ ~IsNone(result)
    /\ min_questions = 2
    /\ ~IsNone(generated) /\ ~PayloadsExclusive(Get(generated))

\* the states of C3: at most max_attempts calls of Runner.run, at most one
\* in flight, the k-th issued only when the first k - 1 have completed, and a
\* result only once the function has returned
C3_Counts ==
    /\ invocations <= max_attempts
    /\ inflight \in {0, 1}
    /\ inflight = 1 <=> rpc = "await"
    /\ invocations = IF rpc = "await" \/ ~IsNone(result) THEN attempt ELSE attempt - 1
    /\ ~IsNone(result) => (rpc = "returned" /\ result = checked)

\* the steps of C3: a call is issued only with none in flight and nothing
\* returned, and an attempt whose document passes validation returns it
C3_Steps ==
    /\ invocations' # invocations =>
          /\ invocations' = invocations + 1
          /\ inflight = 0 /\ rpc = "top" /\ IsNone(result)
    /\ rpc = "returned" => (rpc' = "returned" /\ invocations' = invocations)
    /\ (rpc = "await" /\ ~IsNone(checked') /\ DocumentSound(Get(checked'), min_questions))
          => (rpc' = "returned" /\ result' = checked')

\* C3: within one call the generator is invoked at most max_attempts times,
\* one invocation at a time, each after the one before has completed, and
\* none after an attempt whose document passes validation: that document is
\* the one returned.
C3_SequentialAttempts == [](C3_Counts) /\ [][C3_Steps]_vars

\* C3 witness: the third of three attempts produced the document returned.
C3_Witness ==
    /\ rpc = "returned" /\ ~IsNone(result)
    /\ attempt = 3 /\ invocations = 3
    /\ lastFailure.kind # "none"

\* the failure of the latest attempt is (i) no malformed-output failure and
\* not raised by the validator
FailedOther == lastFailure.kind = "Exception" /\ IsNone(checked)
\* (ii) a malformed-output failure with no extractable payload
FailedNoPayload ==
    /\ lastFailure.kind = "ModelBehaviorError"
    /\ IsNone(_extract_json_object_from_error(lastFailure.msg))
\* (iii) a content-validation failure of a generated document
FailedContent == lastFailure.kind = "Exception" /\ ~IsNone(checked)

FailureText == lastFailure.name \o <<": ">> \o lastFailure.msg

\* C7 as claimed: after a failure of kind (i), (ii) or (iii) the next prompt
\* is the original instruction plus the reminder of the mutually exclusive
\* fields and the name and message of the failure.
C7_ReminderAndFailure ==
    (rpc = "top" /\ (FailedOther \/ FailedNoPayload \/ FailedContent)) =>
        /\ StartsWith(prompt, user_prompt)
        /\ Contains(prompt, <<ExclusiveFieldReminder>>)
        /\ Contains(prompt, FailureText)

\* C7 as amended: after a failure of kind (i) or (iii) the next prompt is the
\* original instruction plus the name and message of the failure, without
\* the reminder of the mutually exclusive fields; in case (iii) the failure
\* is the validator's own ValueError; after a failure of kind (ii) the next
\* prompt is the original instruction plus the reminder, without the name or
\* message of the failure.  The prompt built is the prompt issued.
C7_ReminderOrFailure ==
    /\ (rpc = "top" /\ (FailedOther \/ FailedContent)) =>
          /\ StartsWith(prompt, user_prompt)
          /\ Contains(prompt, FailureText)
          /\ ~Contains(prompt, <<ExclusiveFieldReminder>>)
    /\ (rpc = "top" /\ FailedContent) =>
          /\ lastFailure.name = <<"ValueError">>
          /\ Some(lastFailure.msg) = _validate_content_rules(Get(checked), min_questions)
    /\ (rpc = "top" /\ FailedNoPayload) =>
          /\ StartsWith(prompt, user_prompt)
          /\ Contains(prompt, <<ExclusiveFieldReminder>>)
          /\ ~Contains(prompt, lastFailure.name)
          /\ ~Contains(prompt, lastFailure.msg)
    /\ rpc = "await" => issued = prompt

\* C7 witness: the validator rejected a generated document as holding a
\* duplicate, and another attempt is left.
C7_Witness ==
    /\ rpc = "top" /\ FailedContent
    /\ attempt <= max_attempts
    /\ lastFailure.msg = <<"Duplicate questions detected.">>

\* the failure of the latest attempt is a malformed-output failure with an
\* extractable fragment
FailedWithPayload ==
    /\ lastFailure.kind = "ModelBehaviorError"
    /\ ~IsNone(_extract_json_object_from_error(lastFailure.msg))

LastFragment == Get(_extract_json_object_from_error(lastFailure.msg))

Range(s) == {s[i] : i \in 1..Len(s)}

\* the text of the three repair prompts that comes from neither the
\* instruction nor the failure
FixedPromptText ==
    Range(RepairPrompt(<<>>, <<>>)) \cup Range(ReminderPrompt(<<>>))
    \cup Range(ErrorPrompt(<<>>, [name |-> <<>>, msg |-> <<>>]))

\* C11: the first attempt is issued with the caller's instruction unmodified;
\* every later prompt is built from the instruction and the failure of the
\* attempt just before it only: after a malformed-output failure with an
\* extractable fragment it restates the instruction and holds the fragment
\* verbatim, and no text of an earlier prompt or an earlier failure is in it.
C11_PromptFromLastFailureOnly ==
    /\ (rpc = "await" /\ attempt = 1) => issued = user_prompt
    /\ rpc = "await" => issued = prompt
    /\ lastFailure.kind = "none" => prompt = user_prompt
    /\ FailedWithPayload =>
          /\ Contains(prompt, user_prompt)
          /\ Contains(prompt, LastFragment)
          /\ Contains(lastFailure.msg, LastFragment)
          /\ LastFragment[1] = "{" /\ LastFragment[Len(LastFragment)] = "}"
    /\ lastFailure.kind # "none" =>
          \A i \in 1..Len(prompt) :
              prompt[i] \in Range(user_prompt) \cup Range(lastFailure.name)
                            \cup Range(lastFailure.msg) \cup FixedPromptText

\* C11 witness: the third attempt is about to be issued, after a
\* malformed-output failure whose fragment spans the first closing brace of
\* the message and text after it.
C11_Witness ==
    /\ rpc = "top" /\ attempt = 3 /\ attempt <= max_attempts
    /\ FailedWithPayload
    /\ Contains(LastFragment, <<"}", "]">>)
    /\ Contains(prompt, LastFragment)

----------------------------------------------------------------------------
(* Claims about main, checked under Spec *)

\* s has a character that is no whitespace
NonBlank(s) == \E i \in 1..Len(s) : s[i] \notin Whitespace

\* an entry that is an object with a non-blank name and instruction
WellFormed(entry) ==
    /\ entry.isDict
    /\ entry.name.isStr /\ NonBlank(entry.name.val)
    /\ entry.instruction.isStr /\ NonBlank(entry.instruction.val)

WellFormedBefore(n) ==
    {i \in 1..Len(source.entries) : i < n /\ WellFormed(source.entries[i])}
MalformedBefore(n) ==
    {i \in 1..Len(source.entries) : i < n /\ ~WellFormed(source.entries[i])}

\* the entry collection of the prompt source is no list
NonListSource == source.file = "object" /\ source.hasThema /\ ~source.isList

\* every malformed entry the loop has passed was skipped, and every
\* well-formed entry it has reached, the ones after a skipped entry included,
\* was processed
EntriesSkippedOrProcessed ==
    idx >= 1 =>
       /\ skipped = MalformedBefore(idx)
       /\ {assigned[k].entry : k \in 1..Len(assigned)}
             = WellFormedBefore(IF rpc # "idle" THEN idx + 1 ELSE idx)
       /\ mpc = "done" => idx = Len(source.entries) + 1

\* at a malformed entry the loop skips it and goes on: the step neither
\* raises nor ends the run nor calls _run_with_retries
SkipGoesOn ==
    (mpc = "loop" /\ idx <= Len(source.entries) /\ ~WellFormed(source.entries[idx]))
       => /\ mpc' = "loop" /\ idx' = idx + 1 /\ main_error' = ""
          /\ skipped' = skipped \cup {idx}
          /\ assigned' = assigned /\ calls' = calls /\ rpc' = "idle"

\* C8 as claimed: a malformed entry is reported and skipped and the entries
\* after it are still processed, and a prompt source whose entry collection
\* is no list is skipped too: main does not raise on it.
C8_NeverAborts ==
    /\ EntriesSkippedOrProcessed
    /\ NonListSource => mpc # "raised"

\* C8 as amended: a malformed entry (no object, or without a non-blank name
\* or instruction) is reported and skipped and the entries after it are still
\* processed; a prompt source whose entry collection is no list is not
\* skipped: main raises ValueError on it before any entry is processed.
C8_SkipsEntriesOnly ==
    /\ [](/\ EntriesSkippedOrProcessed
          /\ (NonListSource /\ mpc # "start") =>
                /\ mpc = "raised" /\ main_error = "ValueError"
                /\ idx = 0 /\ assigned = <<>> /\ skipped = {} /\ calls = <<>>)
    /\ [][SkipGoesOn]_vars

\* C8 witness: the run is over, an entry was skipped and a later one was
\* processed.
C8_Witness ==
    /\ mpc = "done"
    /\ \E i \in skipped : \E k \in 1..Len(calls) : calls[k].entry > i

\* C9: no two processed entries of one run are assigned the same output path.
C9_DistinctPaths ==
    \A i, j \in 1..Len(assigned) :
        i # j => assigned[i].path # assigned[j].path

\* C10: every well-formed entry gets exactly one call of _run_with_retries,
\* in source order and one at a time, whatever the earlier calls returned,
\* and an output file is written for an entry iff its call returned a quiz:
\* once main has ended, every well-formed entry of the source has had its
\* call and, if the call returned a quiz, its file.
C10_EveryEntryCalledOnce ==
    /\ \A k \in 1..Len(assigned) :
          /\ WellFormed(source.entries[assigned[k].entry])
          /\ \A m \in 1..(k - 1) : assigned[m].entry < assigned[k].entry
    /\ Len(calls) = Len(assigned) - (IF rpc # "idle" THEN 1 ELSE 0)
    /\ \A k \in 1..Len(calls) :
          /\ calls[k].entry = assigned[k].entry
          /\ calls[k].saved <=> calls[k].quiz
          /\ calls[k].saved => \E f \in files : f[1] = assigned[k].path
    /\ \A f \in files : \E k \in 1..Len(calls) :
          calls[k].saved /\ assigned[k].path = f[1] /\ calls[k].entry = f[2]
    /\ mpc \in {"start", "loop", "done"} => rpc = "idle"
    /\ mpc \in {"done", "raised"} =>
          {calls[k].entry : k \in 1..Len(calls)}
             = WellFormedBefore(Len(source.entries) + 1)

====
